---- MODULE Spec2Model ----
(***************************************************************************)
(* Model of src/ch07/doubleLinkNode.py: the sentinel-bounded doubly linked *)
(* node store (_DoublyLinkedBase), LinkedDeque and PositionalList.         *)
(*                                                                         *)
(* The heap holds every _Node ever allocated, addressed by an integer id;  *)
(* Python's None is the id 0.  Two PositionalList instances ("A", "B") and *)
(* one LinkedDeque ("D") exist after construction.  Every method is an      *)
(* operator from the frame at its entry to the frame at its exit (fields,  *)
(* exception raised, value returned), and every public method is one       *)
(* action that commits the exit frame.  The Position objects handed to the *)
(* caller are kept in `positions`, so that later calls may present any of  *)
(* them, stale or foreign ones included.                                   *)
(*                                                                         *)
(* Runtime note.  _Node.__slots__ (line 6) declares 'element' while        *)
(* _Node.__init__ (line 9) assigns '_element'; CPython 3 answers that      *)
(* assignment with AttributeError, so as the file stands no list instance  *)
(* can be built.  Likewise `Empty` is raised (lines 54-86) but never       *)
(* imported into the module.  The model follows the statements of the      *)
(* methods: a node stores the three fields __init__ assigns, and Empty is  *)
(* the class of src/ch06/arrayStack.py.                                    *)
(***************************************************************************)
EXTENDS Integers, Sequences, FiniteSets, TLC

\* ------------------------------------------------------------------ bounds
\* real (non-sentinel) nodes allocated over the whole run
MaxNodes == 3
\* element values are 1..MaxElem
MaxElem == 2
\* pushes on the ArrayStack over the whole run
MaxPush == 4
\* characters of the strings passed to is_matched
MaxExpr == 3

\* ------------------------------------------------------------- vocabulary
None == 0
Elements == 1 .. MaxElem
PositionalLists == {"A", "B"}
LinkedDeques == {"D"}
Containers == PositionalLists \cup LinkedDeques
\* ids of the sentinels __init__ allocates, per instance
HeaderOf(c) == CASE c = "A" -> 1 [] c = "B" -> 3 [] c = "D" -> 5
TrailerOf(c) == CASE c = "A" -> 2 [] c = "B" -> 4 [] c = "D" -> 6
NumSentinels == 2 * Cardinality(Containers)
\* ids for the MaxNodes nodes the callers' adds allocate, for as many again,
\* which pq_sort allocates when it stores the elements back, and one beyond,
\* so that the add that would exceed the cap is well defined before its guard
\* rejects it
NodeIds == 1 .. (NumSentinels + 2 * MaxNodes + 1)

\* _Node.__init__: the three fields of a node
Node(element, prev, next) == [element |-> element, prev |-> prev, next |-> next]

\* PositionalList.Position.__init__: (container, node); Python's None as a
\* position argument or return value is NoPosition
Position(container, node) == [container |-> container, node |-> node]
NoPosition == [container |-> "None", node |-> None]

\* Program state: the node heap, the three instances' fields, the number of
\* real nodes allocated, and the Position objects the caller holds.
\* History: the nodes removed by a successful delete(p), the element last
\* stored at each node through the public interface, the instance whose
\* method allocated each node, and per PositionalList the numbers of
\* successful add_* calls and of successful delete calls.
VARIABLES heap, objs, alloc, positions, deleted, stored, creator, count
listVars == <<heap, objs, alloc, positions, deleted, stored, creator, count>>

\* A run of quick_sort (src/ch12/quickSort.py): the queue the caller passes,
\* the stack of the activations of quick_sort (the innermost last), where the
\* caller stands ("idle", "start", "running", "done"), and, as history, the
\* contents the queue had when it was passed.
VARIABLES queue, stack, qpc, S0
quickVars == <<queue, stack, qpc, S0>>

\* A call of inplace_quick_sort (src/ch12/quickSort.py): the Python list and
\* the two indices passed, where the caller stands ("idle", "start", "done")
\* and the exception the call ended with; as history, the contents the list
\* had when it was passed and the indices at which the call read or wrote it.
VARIABLES list, arg_a, arg_b, ipc, iexc, list0, touched
inplaceVars == <<list, arg_a, arg_b, ipc, iexc, list0, touched>>

\* An ArrayStack (src/ch06/arrayStack.py): its field _data and what the last
\* call of one of its methods was and gave back.  History: every element
\* pushed, in the order of the pushes, the pushes (by their place in that
\* order) not yet undone by a pop, and the number of pops that returned.
VARIABLES data, lastCall, pushed, live, pops
arrayStackVars == <<data, lastCall, pushed, live, pops>>

\* A call of is_matched (src/ch06/arrayStack.py): the string passed, where
\* the caller stands ("idle", "start", "done"), the value returned ("True",
\* "False", or "None" when the call raised) and the exception raised.
VARIABLES expr, mpc, mret, mexc
matchVars == <<expr, mpc, mret, mexc>>

vars == <<listVars, quickVars, inplaceVars, arrayStackVars, matchVars>>
\* what the methods of the lists, quick_sort, inplace_quick_sort, the methods
\* of ArrayStack and is_matched leave alone
notListVars == <<quickVars, inplaceVars, arrayStackVars, matchVars>>
notQuickVars == <<listVars, inplaceVars, arrayStackVars, matchVars>>
notInplaceVars == <<listVars, quickVars, arrayStackVars, matchVars>>
notArrayStackVars == <<listVars, quickVars, inplaceVars, matchVars>>
notMatchVars == <<listVars, quickVars, inplaceVars, arrayStackVars>>

\* --------------------------------------------------------------- frames
\* The state a method body works on, and how it left: exc = "None" on a
\* normal return (ret is the returned element or node), else the exception.
\* A method that returns a Position (or None for "no position") leaves it in pos;
\* out is what a generator has yielded.  As history, spliced lists the calls
\* of _insert_between made since the entry: the instance, the two nodes
\* passed and the heap as it was when the call was made.
Frame(h, o, a) ==
    [heap |-> h, objs |-> o, alloc |-> a, exc |-> "None", ret |-> None,
     pos |-> NoPosition, out |-> <<>>, spliced |-> <<>>]
Return(m, v) == [m EXCEPT !.ret = v]
ReturnPos(m, q) == [m EXCEPT !.ret = None, !.pos = q]
Raise(m, x) == [m EXCEPT !.exc = x, !.ret = None]

\* _DoublyLinkedBase.__init__ on instance c
DoublyLinkedBase_init(h, c) ==
    [h EXCEPT ![HeaderOf(c)] = Node(None, None, TrailerOf(c)),
              ![TrailerOf(c)] = Node(None, HeaderOf(c), None)]

RECURSIVE InitHeap(_, _)
InitHeap(h, cs) ==
    IF cs = {} THEN h
    ELSE LET c == CHOOSE x \in cs : TRUE
         IN InitHeap(DoublyLinkedBase_init(h, c), cs \ {c})

\* _DoublyLinkedBase.__len__ / is_empty
len(o, c) == o[c].size
is_empty(o, c) == o[c].size = 0

\* (mutant) _insert_between without `self._size += 1`
InsertBetween_NoSizeInc(m, c, e, predecessor, successor) ==
    LET newest == NumSentinels + m.alloc + 1
        m0 == [m EXCEPT !.heap[newest] = Node(e, predecessor, successor),
                        !.alloc = @ + 1]
        m1 == [m0 EXCEPT !.heap[predecessor].next = newest]
        m2 == [m1 EXCEPT !.heap[successor].prev = newest]
    IN Return(m2, newest)

\* (mutant) _insert_between without `predecessor._next = newest`
InsertBetween_NoForwardLink(m, c, e, predecessor, successor) ==
    LET newest == NumSentinels + m.alloc + 1
        m0 == [m EXCEPT !.heap[newest] = Node(e, predecessor, successor),
                        !.alloc = @ + 1]
        m2 == [m0 EXCEPT !.heap[successor].prev = newest]
        m3 == [m2 EXCEPT !.objs[c].size = @ + 1]
    IN Return(m3, newest)

\* (mutant) _insert_between building the node as _Node(e, predecessor, None)
InsertBetween_NoNext(m, c, e, predecessor, successor) ==
    LET newest == NumSentinels + m.alloc + 1
        m0 == [m EXCEPT !.heap[newest] = Node(e, predecessor, None),
                        !.alloc = @ + 1]
        m1 == [m0 EXCEPT !.heap[predecessor].next = newest]
        m2 == [m1 EXCEPT !.heap[successor].prev = newest]
        m3 == [m2 EXCEPT !.objs[c].size = @ + 1]
    IN Return(m3, newest)

\* _DoublyLinkedBase._insert_between(e, predecessor, successor): ret = newest
InsertBetween(m, c, e, predecessor, successor) ==
    LET newest == NumSentinels + m.alloc + 1
        m0 == [m EXCEPT !.heap[newest] = Node(e, predecessor, successor),
                        !.alloc = @ + 1,
                        !.spliced = Append(@, [self |-> c,
                                               predecessor |-> predecessor,
                                               successor |-> successor,
                                               heap |-> m.heap])]
    IN IF predecessor = None THEN Raise(m0, "AttributeError")
       ELSE LET m1 == [m0 EXCEPT !.heap[predecessor].next = newest]
            IN IF successor = None THEN Raise(m1, "AttributeError")
               ELSE LET m2 == [m1 EXCEPT !.heap[successor].prev = newest]
                        m3 == [m2 EXCEPT !.objs[c].size = @ + 1]
                    IN Return(m3, newest)

\* (mutant) _delete_node without `successor._prev = predecessor`
DeleteNode_NoBackLink(m, c, node) ==
    IF node = None THEN Raise(m, "AttributeError")
    ELSE
    LET predecessor == m.heap[node].prev
        successor == m.heap[node].next
    IN IF predecessor = None THEN Raise(m, "AttributeError")
       ELSE LET m1 == [m EXCEPT !.heap[predecessor].next = successor]
                m3 == [m1 EXCEPT !.objs[c].size = @ - 1]
                element == m3.heap[node].element
                m4 == [m3 EXCEPT !.heap[node] = Node(None, None, None)]
            IN Return(m4, element)

\* (mutant) _delete_node without `self._size -= 1`
DeleteNode_NoSizeDec(m, c, node) ==
    LET predecessor == m.heap[node].prev
        successor == m.heap[node].next
        m1 == [m EXCEPT !.heap[predecessor].next = successor]
        m2 == [m1 EXCEPT !.heap[successor].prev = predecessor]
        element == m2.heap[node].element
        m4 == [m2 EXCEPT !.heap[node] = Node(None, None, None)]
    IN Return(m4, element)

\* (mutant) _delete_node without the line that deprecates the node
DeleteNode_NoDeprecate(m, c, node) ==
    LET predecessor == m.heap[node].prev
        successor == m.heap[node].next
        m1 == [m EXCEPT !.heap[predecessor].next = successor]
        m2 == [m1 EXCEPT !.heap[successor].prev = predecessor]
        m3 == [m2 EXCEPT !.objs[c].size = @ - 1]
    IN Return(m3, m3.heap[node].element)

\* _DoublyLinkedBase._delete_node(node): ret = the element removed
DeleteNode(m, c, node) ==
    IF node = None THEN Raise(m, "AttributeError")
    ELSE
    LET predecessor == m.heap[node].prev
        successor == m.heap[node].next
    IN IF predecessor = None THEN Raise(m, "AttributeError")
       ELSE LET m1 == [m EXCEPT !.heap[predecessor].next = successor]
            IN IF successor = None THEN Raise(m1, "AttributeError")
               ELSE LET m2 == [m1 EXCEPT !.heap[successor].prev = predecessor]
                        m3 == [m2 EXCEPT !.objs[c].size = @ - 1]
                        element == m3.heap[node].element
                        m4 == [m3 EXCEPT !.heap[node] = Node(None, None, None)]
                    IN Return(m4, element)

\* ------------------------------------------------------------ LinkedDeque
\* Each method maps the frame at entry to the frame at exit.
Deque_first(m, c) ==
    IF is_empty(m.objs, c) THEN Raise(m, "Empty")
    ELSE Return(m, m.heap[m.heap[HeaderOf(c)].next].element)

Deque_last(m, c) ==
    IF is_empty(m.objs, c) THEN Raise(m, "Empty")
    ELSE Return(m, m.heap[m.heap[TrailerOf(c)].prev].element)

Deque_insert_first(m, c, e) ==
    Return(InsertBetween(m, c, e, HeaderOf(c), m.heap[HeaderOf(c)].next), None)

\* (mutant) insert_last splicing between header and trailer
Deque_insert_last_AtHeader(m, c, e) ==
    Return(InsertBetween(m, c, e, HeaderOf(c), TrailerOf(c)), None)

Deque_insert_last(m, c, e) ==
    Return(InsertBetween(m, c, e, m.heap[TrailerOf(c)].prev, TrailerOf(c)), None)

\* (mutant) delete_first without the is_empty test
Deque_delete_first_NoTest(m, c) ==
    DeleteNode(m, c, m.heap[HeaderOf(c)].next)

Deque_delete_first(m, c) ==
    IF is_empty(m.objs, c) THEN Raise(m, "Empty")
    ELSE DeleteNode(m, c, m.heap[HeaderOf(c)].next)

\* (mutant) delete_last removing the node after the header, as delete_first does
Deque_delete_last_AsFirst(m, c) ==
    IF is_empty(m.objs, c) THEN Raise(m, "Empty")
    ELSE DeleteNode(m, c, m.heap[HeaderOf(c)].next)

Deque_delete_last(m, c) ==
    IF is_empty(m.objs, c) THEN Raise(m, "Empty")
    ELSE DeleteNode(m, c, m.heap[TrailerOf(c)].prev)

\* --------------------------------------------------------- PositionalList
\* Position.element()
Element(h, p) == h[p.node].element

\* (mutant) _validate without the `p._container is not self` test
Validate_NoContainerTest(m, c, p) ==
    IF p = NoPosition THEN Raise(m, "TypeError")
    ELSE IF m.heap[p.node].next = None THEN Raise(m, "ValueError")
    ELSE Return(m, p.node)

\* PositionalList._validate(p): ret = p's node, or the error raised
Validate(m, c, p) ==
    IF p = NoPosition THEN Raise(m, "TypeError")
    ELSE IF p.container # c THEN Raise(m, "ValueError")
    ELSE IF m.heap[p.node].next = None THEN Raise(m, "ValueError")
    ELSE Return(m, p.node)

\* (mutant) _make_position testing the header only
MakePosition_HeaderOnly(c, node) ==
    IF node = HeaderOf(c) THEN NoPosition ELSE Position(c, node)

\* PositionalList._make_position(node)
MakePosition(c, node) ==
    IF node = HeaderOf(c) \/ node = TrailerOf(c) THEN NoPosition
    ELSE Position(c, node)

PositionalList_first(m, c) ==
    ReturnPos(m, MakePosition(c, m.heap[HeaderOf(c)].next))

PositionalList_last(m, c) ==
    ReturnPos(m, MakePosition(c, m.heap[TrailerOf(c)].prev))

PositionalList_before(m, c, p) ==
    LET v == Validate(m, c, p)
    IN IF v.exc # "None" THEN v
       ELSE ReturnPos(v, MakePosition(c, v.heap[v.ret].prev))

PositionalList_after(m, c, p) ==
    LET v == Validate(m, c, p)
    IN IF v.exc # "None" THEN v
       ELSE ReturnPos(v, MakePosition(c, v.heap[v.ret].next))

\* PositionalList._insert_between: the inherited splice, then a Position
PositionalList_insert_between(m, c, e, predecessor, successor) ==
    LET r == InsertBetween(m, c, e, predecessor, successor)
    IN IF r.exc # "None" THEN r ELSE ReturnPos(r, MakePosition(c, r.ret))

PositionalList_add_first(m, c, e) ==
    PositionalList_insert_between(m, c, e, HeaderOf(c), m.heap[HeaderOf(c)].next)

PositionalList_add_last(m, c, e) ==
    PositionalList_insert_between(m, c, e, m.heap[TrailerOf(c)].prev, TrailerOf(c))

\* (mutant) add_before splicing on the far side of p, as add_after does
PositionalList_add_before_AsAfter(m, c, p, e) ==
    LET v == Validate(m, c, p)
    IN IF v.exc # "None" THEN v
       ELSE PositionalList_insert_between(v, c, e, v.ret, v.heap[v.ret].next)

PositionalList_add_before(m, c, p, e) ==
    LET v == Validate(m, c, p)
    IN IF v.exc # "None" THEN v
       ELSE PositionalList_insert_between(v, c, e, v.heap[v.ret].prev, v.ret)

PositionalList_add_after(m, c, p, e) ==
    LET v == Validate(m, c, p)
    IN IF v.exc # "None" THEN v
       ELSE PositionalList_insert_between(v, c, e, v.ret, v.heap[v.ret].next)

\* (mutant) delete without `return`: the element removed is dropped
PositionalList_delete_NoReturn(m, c, p) ==
    LET v == Validate(m, c, p)
    IN IF v.exc # "None" THEN v ELSE Return(DeleteNode(v, c, v.ret), None)

PositionalList_delete(m, c, p) ==
    LET v == Validate(m, c, p)
    IN IF v.exc # "None" THEN v ELSE DeleteNode(v, c, v.ret)

\* (mutant) replace returning the element it has just stored
PositionalList_replace_ReturnsNew(m, c, p, e) ==
    LET v == Validate(m, c, p)
    IN IF v.exc # "None" THEN v
       ELSE LET w == [v EXCEPT !.heap[v.ret].element = e]
            IN Return(w, w.heap[v.ret].element)

PositionalList_replace(m, c, p, e) ==
    LET v == Validate(m, c, p)
    IN IF v.exc # "None" THEN v
       ELSE LET old_value == v.heap[v.ret].element
            IN Return([v EXCEPT !.heap[v.ret].element = e], old_value)

\* PositionalList.__iter__, run to exhaustion: the loop after cursor = first().
\* The loop has no bound of its own; IterFuel cuts a walk that would not end
\* and reports it as "NoReturn".
IterFuel == Cardinality(NodeIds) + 1

RECURSIVE IterLoop(_, _, _, _)
IterLoop(m, c, cursor, fuel) ==
    IF cursor = NoPosition THEN m
    ELSE IF fuel = 0 THEN Raise(m, "NoReturn")
    ELSE IF cursor.node = None THEN Raise(m, "AttributeError")
    ELSE LET y == [m EXCEPT !.out = Append(@, Element(m.heap, cursor))]
             a == PositionalList_after(y, c, cursor)
         IN IF a.exc # "None" THEN a
            ELSE IterLoop([a EXCEPT !.pos = NoPosition], c, a.pos, fuel - 1)

PositionalList_iter(m, c) ==
    LET f == PositionalList_first(m, c)
    IN IterLoop([f EXCEPT !.pos = NoPosition, !.out = <<>>], c, f.pos, IterFuel)

\* ---------------------------------------------------------------- pq_sort
\* PriorityQueue, which src/ch09/pq_sort.py uses and the repository's files
\* here do not define: a collection of (key, value) pairs, kept in arrival
\* order; remove_min takes out the earliest pair of least key.
PriorityQueue == <<>>
PriorityQueue_add(P, k, v) == Append(P, <<k, v>>)
PriorityQueue_min(P) ==
    CHOOSE i \in 1 .. Len(P) :
        /\ \A j \in 1 .. Len(P) : P[i][1] <= P[j][1]
        /\ \A j \in 1 .. (i - 1) : P[j][1] # P[i][1]
PriorityQueue_remove_min(P) ==
    LET i == PriorityQueue_min(P)
    IN [item |-> P[i],
        rest |-> SubSeq(P, 1, i - 1) \o SubSeq(P, i + 1, Len(P))]

\* pq_sort, first loop (lines 5-7), with j passes still to run: exits with the
\* frame and the priority queue, or with the frame of the call that raised
RECURSIVE pq_sort_drain(_, _, _, _)
pq_sort_drain(m, c, P, j) ==
    IF j = 0 THEN [m |-> m, P |-> P]
    ELSE LET f == PositionalList_first(m, c)
             d == PositionalList_delete(f, c, f.pos)
         IN IF d.exc # "None" THEN [m |-> d, P |-> P]
            ELSE pq_sort_drain(d, c, PriorityQueue_add(P, d.ret, d.ret), j - 1)

\* (mutant) second loop storing each minimum at the front: C.add_first(v)
RECURSIVE pq_sort_fill_AddFirst(_, _, _, _)
pq_sort_fill_AddFirst(m, c, P, j) ==
    IF j = 0 THEN m
    ELSE IF P = <<>> THEN Raise(m, "Empty")
    ELSE LET r == PriorityQueue_remove_min(P)
             a == PositionalList_add_first(m, c, r.item[2])
         IN IF a.exc # "None" THEN a
            ELSE pq_sort_fill_AddFirst(a, c, r.rest, j - 1)

\* pq_sort, second loop (lines 8-10), with j passes still to run
RECURSIVE pq_sort_fill(_, _, _, _)
pq_sort_fill(m, c, P, j) ==
    IF j = 0 THEN m
    ELSE IF P = <<>> THEN Raise(m, "Empty")
    ELSE LET r == PriorityQueue_remove_min(P)
             a == PositionalList_add_last(m, c, r.item[2])
         IN IF a.exc # "None" THEN a
            ELSE pq_sort_fill(a, c, r.rest, j - 1)

\* pq_sort(C): returns nothing
pq_sort(m, c) ==
    LET n == len(m.objs, c)
        d == pq_sort_drain(m, c, PriorityQueue, n)
    IN IF d.m.exc # "None" THEN d.m
       ELSE LET w == pq_sort_fill(d.m, c, d.P, n)
            IN IF w.exc # "None" THEN w
               ELSE Return([w EXCEPT !.pos = NoPosition], None)

\* ------------------------------------------------------------------ state
InitLists ==
    /\ heap = InitHeap([n \in NodeIds |-> Node(None, None, None)], Containers)
    /\ objs = [c \in Containers |->
                 [header |-> HeaderOf(c), trailer |-> TrailerOf(c), size |-> 0]]
    /\ alloc = 0
    /\ positions = {}
    /\ deleted = {}
    /\ stored = [n \in NodeIds |-> None]
    /\ creator = [n \in NodeIds |->
                    IF \E c \in Containers : n \in {HeaderOf(c), TrailerOf(c)}
                    THEN CHOOSE c \in Containers : n \in {HeaderOf(c), TrailerOf(c)}
                    ELSE "None"]
    /\ count = [c \in PositionalLists |-> [adds |-> 0, dels |-> 0]]

\* no run of quick_sort is under way
QuickAtRest == queue = <<>> /\ stack = <<>> /\ qpc = "idle" /\ S0 = <<>>

\* no call of inplace_quick_sort is under way
InplaceAtRest ==
    /\ list = <<>> /\ arg_a = 0 /\ arg_b = 0 /\ ipc = "idle" /\ iexc = "None"
    /\ list0 = <<>> /\ touched = {}

\* ArrayStack.__init__ has run and no method has been called
ArrayStack_init ==
    /\ data = <<>>
    /\ lastCall = [op |-> "__init__", ret |-> None, exc |-> "None"]
    /\ pushed = <<>> /\ live = {} /\ pops = 0

\* no call of is_matched is under way
MatchAtRest == expr = <<>> /\ mpc = "idle" /\ mret = "None" /\ mexc = "None"

Init ==
    /\ InitLists /\ QuickAtRest /\ InplaceAtRest /\ ArrayStack_init
    /\ MatchAtRest

Entry == Frame(heap, objs, alloc)

\* One call of method op on instance c with arguments p, e, leaving frame m.
\* A returned Position joins the ones the caller holds.
Call(op, c, p, e, m) ==
    LET ok == m.exc = "None"
        fresh == (NumSentinels + alloc + 1) .. (NumSentinels + m.alloc)
    IN
    /\ m.alloc <= MaxNodes
    /\ heap' = m.heap
    /\ objs' = m.objs
    /\ alloc' = m.alloc
    /\ positions' = IF ok /\ m.pos # NoPosition
                    THEN positions \cup {m.pos} ELSE positions
    /\ deleted' = IF ok /\ op = "delete" THEN deleted \cup {p.node} ELSE deleted
    /\ stored' =
         IF ok /\ op \in {"add_first", "add_last", "add_before", "add_after"}
              /\ m.pos.node \in NodeIds
         THEN [stored EXCEPT ![m.pos.node] = e]
         ELSE IF ok /\ op = "replace" THEN [stored EXCEPT ![p.node] = e]
         ELSE IF ok /\ op = "delete" THEN [stored EXCEPT ![p.node] = None]
         ELSE stored
    /\ creator' = IF fresh = {} THEN creator
                  ELSE [n \in NodeIds |-> IF n \in fresh THEN c ELSE creator[n]]
    /\ count' =
         IF ~ok \/ c \notin PositionalLists THEN count
         ELSE IF op \in {"add_first", "add_last", "add_before", "add_after"}
              THEN [count EXCEPT ![c].adds = @ + 1]
         ELSE IF op = "delete" THEN [count EXCEPT ![c].dels = @ + 1]
         ELSE count
    /\ UNCHANGED notListVars

\* what a caller may present where a Position is expected
Presentable == positions \cup {NoPosition}

\* ---------------------------------------------------------------- actions
\* LinkedDeque
deque_first ==
    \E c \in LinkedDeques :
        Call("deque_first", c, NoPosition, None, Deque_first(Entry, c))
deque_last ==
    \E c \in LinkedDeques :
        Call("deque_last", c, NoPosition, None, Deque_last(Entry, c))
insert_first ==
    \E c \in LinkedDeques, e \in Elements :
        Call("insert_first", c, NoPosition, e, Deque_insert_first(Entry, c, e))
insert_last ==
    \E c \in LinkedDeques, e \in Elements :
        Call("insert_last", c, NoPosition, e, Deque_insert_last(Entry, c, e))
delete_first ==
    \E c \in LinkedDeques :
        Call("delete_first", c, NoPosition, None, Deque_delete_first(Entry, c))
delete_last ==
    \E c \in LinkedDeques :
        Call("delete_last", c, NoPosition, None, Deque_delete_last(Entry, c))

\* PositionalList
first ==
    \E c \in PositionalLists :
        Call("first", c, NoPosition, None, PositionalList_first(Entry, c))
last ==
    \E c \in PositionalLists :
        Call("last", c, NoPosition, None, PositionalList_last(Entry, c))
before ==
    \E c \in PositionalLists, p \in Presentable :
        Call("before", c, p, None, PositionalList_before(Entry, c, p))
after ==
    \E c \in PositionalLists, p \in Presentable :
        Call("after", c, p, None, PositionalList_after(Entry, c, p))
iter ==
    \E c \in PositionalLists :
        Call("iter", c, NoPosition, None, PositionalList_iter(Entry, c))
add_first ==
    \E c \in PositionalLists, e \in Elements :
        Call("add_first", c, NoPosition, e, PositionalList_add_first(Entry, c, e))
add_last ==
    \E c \in PositionalLists, e \in Elements :
        Call("add_last", c, NoPosition, e, PositionalList_add_last(Entry, c, e))
add_before ==
    \E c \in PositionalLists, p \in Presentable, e \in Elements :
        Call("add_before", c, p, e, PositionalList_add_before(Entry, c, p, e))
add_after ==
    \E c \in PositionalLists, p \in Presentable, e \in Elements :
        Call("add_after", c, p, e, PositionalList_add_after(Entry, c, p, e))
delete ==
    \E c \in PositionalLists, p \in Presentable :
        Call("delete", c, p, None, PositionalList_delete(Entry, c, p))
replace ==
    \E c \in PositionalLists, p \in Presentable, e \in Elements :
        Call("replace", c, p, e, PositionalList_replace(Entry, c, p, e))

Next ==
    \/ deque_first \/ deque_last \/ insert_first \/ insert_last
    \/ delete_first \/ delete_last
    \/ first \/ last \/ before \/ after \/ iter
    \/ add_first \/ add_last \/ add_before \/ add_after
    \/ delete \/ replace

Spec == Init /\ [][Next]_vars

\* The operations that change a list, the ones that splice among them.
NextSplice ==
    \/ insert_first \/ insert_last \/ delete_first \/ delete_last
    \/ add_first \/ add_last \/ add_before \/ add_after
    \/ delete \/ replace

SpecSplice == Init /\ [][NextSplice]_vars

\* pq_sort(C) called on a list while the callers' allocation cap is not yet
\* passed.  The nodes its delete calls remove join `deleted`; the Positions
\* its add_last calls return are dropped, as the code drops them.
call_pq_sort ==
    \E c \in PositionalLists :
        /\ alloc <= MaxNodes
        /\ \E m \in {pq_sort(Entry, c)} :
             \E gone \in {{n \in NodeIds : heap[n].next # None /\ m.heap[n].next = None}} :
                LET fresh == (NumSentinels + alloc + 1) .. (NumSentinels + m.alloc)
                IN /\ heap' = m.heap
                   /\ objs' = m.objs
                   /\ alloc' = m.alloc
                   /\ positions' = positions
                   /\ deleted' = deleted \cup gone
                   /\ stored' = [n \in NodeIds |->
                                   IF n \in fresh THEN m.heap[n].element
                                   ELSE IF n \in gone THEN None ELSE stored[n]]
                   /\ creator' = [n \in NodeIds |->
                                    IF n \in fresh THEN c ELSE creator[n]]
                   /\ count' = [count EXCEPT ![c].adds = @ + Cardinality(fresh),
                                             ![c].dels = @ + Cardinality(gone)]
                   /\ UNCHANGED notListVars

\* Callers that build the lists through the public methods and sort them.
NextSort ==
    \/ add_first \/ add_last \/ add_before \/ add_after
    \/ delete \/ replace
    \/ call_pq_sort

SpecSort == Init /\ [][NextSort]_vars

\* -------------------------------------------------------------- quick_sort
\* bounds of the queues and lists handed to the sorting functions
MaxLen == 3
MaxKey == 3
Keys == 1 .. MaxKey

RECURSIVE SeqsUpTo(_, _)
SeqsUpTo(X, n) ==
    IF n = 0 THEN {<<>>}
    ELSE LET shorter == SeqsUpTo(X, n - 1)
         IN shorter \cup {Append(q, x) : q \in {r \in shorter : Len(r) = n - 1}, x \in X}

\* LinkedQueue, which quick_sort uses and the repository's files here do not
\* define: a first-in first-out queue with len, is_empty, first, enqueue and
\* dequeue, its front at index 1.
LinkedQueue == <<>>
LinkedQueue_len(Q) == Len(Q)
LinkedQueue_is_empty(Q) == Q = <<>>
LinkedQueue_first(Q) == Q[1]
LinkedQueue_enqueue(Q, e) == Append(Q, e)
LinkedQueue_dequeue(Q) == [item |-> Q[1], rest |-> Tail(Q)]

\* An activation of quick_sort(S) at its first statement; back names what the
\* caller passed as S: its own queue ("queue"), or its L or G.
Activation(S, back) ==
    [pc |-> "l3", S |-> S, n |-> 0, p |-> None,
     L |-> <<>>, E |-> <<>>, G |-> <<>>, back |-> back]

Top == stack[Len(stack)]
SetTop(f) == stack' = [stack EXCEPT ![Len(stack)] = f]

\* the caller calls quick_sort(queue)
call_quick_sort ==
    /\ qpc = "start"
    /\ stack' = <<Activation(queue, "queue")>>
    /\ qpc' = "running"
    /\ UNCHANGED <<queue, S0, notQuickVars>>

\* lines 3-10: n = len(S); return if n < 2; else the pivot and the three queues
quick_sort_enter ==
    /\ stack # <<>> /\ Top.pc = "l3"
    /\ LET n == LinkedQueue_len(Top.S)
       IN IF n < 2
          THEN SetTop([Top EXCEPT !.n = n, !.pc = "return"])
          ELSE SetTop([Top EXCEPT !.n = n, !.p = LinkedQueue_first(Top.S),
                                  !.L = LinkedQueue, !.E = LinkedQueue,
                                  !.G = LinkedQueue, !.pc = "l11"])
    /\ UNCHANGED <<queue, qpc, S0, notQuickVars>>

\* (mutant) the division sending the elements equal to the pivot to G:
\* `elif p <= S.first()`
Divide_EqualToG(f) ==
    LET d == LinkedQueue_dequeue(f.S)
    IN IF LinkedQueue_first(f.S) < f.p
       THEN [f EXCEPT !.L = LinkedQueue_enqueue(@, d.item), !.S = d.rest]
       ELSE [f EXCEPT !.G = LinkedQueue_enqueue(@, d.item), !.S = d.rest]

\* (mutant) the division with the two comparisons exchanged: the smaller
\* elements go to G and the larger to L
Divide_Exchanged(f) ==
    LET d == LinkedQueue_dequeue(f.S)
    IN IF f.p < LinkedQueue_first(f.S)
       THEN [f EXCEPT !.L = LinkedQueue_enqueue(@, d.item), !.S = d.rest]
       ELSE IF LinkedQueue_first(f.S) < f.p
       THEN [f EXCEPT !.G = LinkedQueue_enqueue(@, d.item), !.S = d.rest]
       ELSE [f EXCEPT !.E = LinkedQueue_enqueue(@, d.item), !.S = d.rest]

\* lines 12-17: one pass of the loop that divides S into L, E and G
Divide(f) ==
    LET d == LinkedQueue_dequeue(f.S)
    IN IF LinkedQueue_first(f.S) < f.p
       THEN [f EXCEPT !.L = LinkedQueue_enqueue(@, d.item), !.S = d.rest]
       ELSE IF f.p < LinkedQueue_first(f.S)
       THEN [f EXCEPT !.G = LinkedQueue_enqueue(@, d.item), !.S = d.rest]
       ELSE [f EXCEPT !.E = LinkedQueue_enqueue(@, d.item), !.S = d.rest]

\* line 11: the loop test, then one pass or the exit to line 19
quick_sort_divide ==
    /\ stack # <<>> /\ Top.pc = "l11"
    /\ IF ~LinkedQueue_is_empty(Top.S)
       THEN SetTop(Divide(Top))
       ELSE SetTop([Top EXCEPT !.pc = "l19"])
    /\ UNCHANGED <<queue, qpc, S0, notQuickVars>>

\* line 19: quick_sort(L)
quick_sort_conquer_L ==
    /\ stack # <<>> /\ Top.pc = "l19"
    /\ stack' = Append([stack EXCEPT ![Len(stack)].pc = "l20"],
                       Activation(Top.L, "L"))
    /\ UNCHANGED <<queue, qpc, S0, notQuickVars>>

\* line 20: quick_sort(G)
quick_sort_conquer_G ==
    /\ stack # <<>> /\ Top.pc = "l20"
    /\ stack' = Append([stack EXCEPT ![Len(stack)].pc = "l22"],
                       Activation(Top.G, "G"))
    /\ UNCHANGED <<queue, qpc, S0, notQuickVars>>

\* lines 22-23: the loop test, then S.enqueue(L.dequeue()) or the exit
quick_sort_concat_L ==
    /\ stack # <<>> /\ Top.pc = "l22"
    /\ IF ~LinkedQueue_is_empty(Top.L)
       THEN LET d == LinkedQueue_dequeue(Top.L)
            IN SetTop([Top EXCEPT !.S = LinkedQueue_enqueue(@, d.item), !.L = d.rest])
       ELSE SetTop([Top EXCEPT !.pc = "l24"])
    /\ UNCHANGED <<queue, qpc, S0, notQuickVars>>

\* lines 24-25
quick_sort_concat_E ==
    /\ stack # <<>> /\ Top.pc = "l24"
    /\ IF ~LinkedQueue_is_empty(Top.E)
       THEN LET d == LinkedQueue_dequeue(Top.E)
            IN SetTop([Top EXCEPT !.S = LinkedQueue_enqueue(@, d.item), !.E = d.rest])
       ELSE SetTop([Top EXCEPT !.pc = "l26"])
    /\ UNCHANGED <<queue, qpc, S0, notQuickVars>>

\* lines 26-27, and the return that follows the last loop
quick_sort_concat_G ==
    /\ stack # <<>> /\ Top.pc = "l26"
    /\ IF ~LinkedQueue_is_empty(Top.G)
       THEN LET d == LinkedQueue_dequeue(Top.G)
            IN SetTop([Top EXCEPT !.S = LinkedQueue_enqueue(@, d.item), !.G = d.rest])
       ELSE SetTop([Top EXCEPT !.pc = "return"])
    /\ UNCHANGED <<queue, qpc, S0, notQuickVars>>

\* the return: the queue object the activation worked on is the one its
\* caller passed, so what the callee left in S is what the caller finds there
quick_sort_return ==
    /\ stack # <<>> /\ Top.pc = "return"
    /\ IF Len(stack) = 1
       THEN /\ queue' = Top.S
            /\ stack' = <<>>
            /\ qpc' = "done"
       ELSE /\ stack' = [i \in 1 .. (Len(stack) - 1) |->
                           IF i < Len(stack) - 1 THEN stack[i]
                           ELSE IF Top.back = "L" THEN [stack[i] EXCEPT !.L = Top.S]
                           ELSE [stack[i] EXCEPT !.G = Top.S]]
            /\ UNCHANGED <<queue, qpc>>
    /\ UNCHANGED <<S0, notQuickVars>>

\* a queue of at most MaxLen keys is passed to quick_sort
InitQuick ==
    /\ InitLists /\ InplaceAtRest /\ ArrayStack_init /\ MatchAtRest
    /\ queue \in SeqsUpTo(Keys, MaxLen)
    /\ S0 = queue
    /\ stack = <<>>
    /\ qpc = "start"

NextQuick ==
    \/ call_quick_sort \/ quick_sort_enter \/ quick_sort_divide
    \/ quick_sort_conquer_L \/ quick_sort_conquer_G
    \/ quick_sort_concat_L \/ quick_sort_concat_E \/ quick_sort_concat_G
    \/ quick_sort_return

SpecQuick == InitQuick /\ [][NextQuick]_vars

\* The calls run one after the other on one thread: a step that can be taken
\* is taken.
SpecQuickFair == SpecQuick /\ WF_vars(NextQuick)

\* ------------------------------------------------------ inplace_quick_sort

\* Line 35 reads `while left < = right:`.  `< =` is two tokens, so the line
\* is not a statement of the language: the module is rejected with
\* SyntaxError when it is loaded and no statement of the function runs.
Line35Compiles == FALSE

\* S[i] of a Python list held as a sequence (indices from 0)
At(S, i) == S[i + 1]

\* S[i], S[j] = S[j], S[i]
Swap(S, i, j) == [S EXCEPT ![i + 1] = S[j + 1], ![j + 1] = S[i + 1]]

\* while left <= right and S[left] < pivot: left += 1
RECURSIVE ScanLeft(_, _, _, _)
ScanLeft(S, left, right, pivot) ==
    IF left <= right /\ At(S, left) < pivot
    THEN ScanLeft(S, left + 1, right, pivot)
    ELSE left

\* while left <= right and pivot < S[right]: right -= 1
RECURSIVE ScanRight(_, _, _, _)
ScanRight(S, left, right, pivot) ==
    IF left <= right /\ pivot < At(S, right)
    THEN ScanRight(S, left, right - 1, pivot)
    ELSE right

\* The loop of lines 35-44, read as `while left <= right`: the list, the
\* left marker and the indices used once the markers have crossed.  A scan
\* uses every index it compares, the one it stops at included.
RECURSIVE Partition(_, _, _, _, _)
Partition(S, left, right, pivot, used) ==
    IF left <= right
    THEN LET l == ScanLeft(S, left, right, pivot)
             r == ScanRight(S, l, right, pivot)
             seen == {i \in left .. l : i <= right} \cup {i \in r .. right : l <= i}
         IN  IF l <= r
             THEN Partition(Swap(S, l, r), l + 1, r - 1, pivot, used \cup seen)
             ELSE Partition(S, l, r, pivot, used \cup seen)
    ELSE [S |-> S, left |-> left, used |-> used]

\* the statements of lines 31-49, were line 35 `while left <= right:`
RECURSIVE inplace_quick_sort_body(_, _, _, _)
inplace_quick_sort_body(S, a, b, used) ==
    IF a >= b
    THEN [S |-> S, used |-> used]
    ELSE LET pivot == At(S, b)
             p == Partition(S, a, b - 1, pivot, used \cup {b})
             placed == Swap(p.S, p.left, b)
             lo == inplace_quick_sort_body(placed, a, p.left - 1, p.used \cup {p.left})
         IN  inplace_quick_sort_body(lo.S, p.left + 1, b, lo.used)

\* inplace_quick_sort(S, a, b): the list afterwards, the indices used and the
\* exception the call ends with
inplace_quick_sort(S, a, b) ==
    IF Line35Compiles
    THEN LET m == inplace_quick_sort_body(S, a, b, {})
         IN  [S |-> m.S, used |-> m.used, exc |-> "None"]
    ELSE [S |-> S, used |-> {}, exc |-> "SyntaxError"]

\* the caller runs inplace_quick_sort(list, arg_a, arg_b)
call_inplace_quick_sort ==
    /\ ipc = "start"
    /\ \E m \in {inplace_quick_sort(list, arg_a, arg_b)} :
        /\ list' = m.S
        /\ touched' = m.used
        /\ iexc' = m.exc
    /\ ipc' = "done"
    /\ UNCHANGED <<arg_a, arg_b, list0, notInplaceVars>>

\* a non-empty list of at most MaxLen keys and two of its indices are passed
InitInplace ==
    /\ InitLists /\ QuickAtRest /\ ArrayStack_init /\ MatchAtRest
    /\ list \in SeqsUpTo(Keys, MaxLen) \ {<<>>}
    /\ arg_a \in 0 .. (Len(list) - 1)
    /\ arg_b \in 0 .. (Len(list) - 1)
    /\ list0 = list
    /\ touched = {}
    /\ iexc = "None"
    /\ ipc = "start"

NextInplace == call_inplace_quick_sort

SpecInplace == InitInplace /\ [][NextInplace]_vars

\* -------------------------------------------------------------- ArrayStack

\* A method of ArrayStack takes the field _data at its entry and gives the
\* field at its exit, the value returned and the exception raised.
StackFrame(d, v, x) == [data |-> d, ret |-> v, exc |-> x]

\* ArrayStack.__len__
ArrayStack_len(d) == Len(d)

\* ArrayStack.is_empty
ArrayStack_is_empty(d) == Len(d) = 0

\* ArrayStack.push(e): self._data.append(e)
ArrayStack_push(d, e) == StackFrame(Append(d, e), None, "None")

\* ArrayStack.top
ArrayStack_top(d) ==
    IF ArrayStack_is_empty(d)
    THEN StackFrame(d, None, "Empty")
    ELSE StackFrame(d, d[Len(d)], "None")

\* ArrayStack.pop with list.pop(0) in place of list.pop()
ArrayStack_pop_Oldest(d) ==
    IF ArrayStack_is_empty(d)
    THEN StackFrame(d, None, "Empty")
    ELSE StackFrame(Tail(d), Head(d), "None")

\* ArrayStack.pop
ArrayStack_pop(d) ==
    IF ArrayStack_is_empty(d)
    THEN StackFrame(d, None, "Empty")
    ELSE StackFrame(SubSeq(d, 1, Len(d) - 1), d[Len(d)], "None")

\* the latest of a non-empty set of pushes
Latest(ks) == CHOOSE k \in ks : \A j \in ks : j <= k

\* S.push(e), for at most MaxPush pushes over the run
stack_push ==
    /\ Len(pushed) < MaxPush
    /\ \E e \in Elements :
        /\ \E m \in {ArrayStack_push(data, e)} :
            /\ data' = m.data
            /\ lastCall' = [op |-> "push", ret |-> m.ret, exc |-> m.exc]
        /\ pushed' = Append(pushed, e)
        /\ live' = live \cup {Len(pushed) + 1}
    /\ UNCHANGED <<pops, notArrayStackVars>>

\* S.pop(); a pop that returns undoes the latest push not yet undone
stack_pop ==
    /\ \E m \in {ArrayStack_pop(data)} :
        /\ data' = m.data
        /\ lastCall' = [op |-> "pop", ret |-> m.ret, exc |-> m.exc]
        /\ pops' = IF m.exc = "None" THEN pops + 1 ELSE pops
        /\ live' = IF m.exc = "None" /\ live # {}
                   THEN live \ {Latest(live)} ELSE live
    /\ UNCHANGED <<pushed, notArrayStackVars>>

\* S.top()
stack_top ==
    /\ \E m \in {ArrayStack_top(data)} :
        /\ data' = m.data
        /\ lastCall' = [op |-> "top", ret |-> m.ret, exc |-> m.exc]
    /\ UNCHANGED <<pushed, live, pops, notArrayStackVars>>

\* len(S)
stack_len ==
    /\ lastCall' = [op |-> "__len__", ret |-> ArrayStack_len(data), exc |-> "None"]
    /\ UNCHANGED <<data, pushed, live, pops, notArrayStackVars>>

\* S.is_empty()
stack_is_empty ==
    /\ lastCall' = [op |-> "is_empty", ret |-> ArrayStack_is_empty(data),
                    exc |-> "None"]
    /\ UNCHANGED <<data, pushed, live, pops, notArrayStackVars>>

NextStack ==
    stack_push \/ stack_pop \/ stack_top \/ stack_len \/ stack_is_empty

SpecStack == Init /\ [][NextStack]_vars

\* -------------------------------------------------------------- is_matched

\* the characters of the strings passed to is_matched: the six delimiters
\* and one character that is none of them
Chars == {"(", ")", "{", "}", "[", "]", "a"}

\* lefty = '({[' and righty = ')}]'
lefty == <<"(", "{", "[">>
righty == <<")", "}", "]">>

\* c in s, for a character c and a string s
In(c, s) == \E i \in 1 .. Len(s) : s[i] = c

\* s.index(c) for a character c in s: its first place, counted from 0
index(s, c) == (CHOOSE i \in 1 .. Len(s) : s[i] = c /\ \A j \in 1 .. (i - 1) : s[j] # c) - 1

\* the attributes of str that is_matched looks up: str has index, and nothing
\* called idnex
StrHasAttr(name) == name \in {"index"}

\* S.push(*args): push takes exactly one argument besides self; any other
\* number is answered with TypeError before the body runs
ArrayStack_push_call(d, args) ==
    IF Len(args) = 1
    THEN ArrayStack_push(d, args[1])
    ELSE StackFrame(d, None, "TypeError")

\* what a call of is_matched gives: the value returned and the exception
MatchResult(v, x) == [ret |-> v, exc |-> x]
Bool(b) == IF b THEN "True" ELSE "False"

\* The loop of lines 59-66 from the i-th character on, with S._data = d, and
\* the return of line 67.  Line 61 calls S.push() with no argument.  Line 65
\* evaluates righty.idnex(c) before S.pop().
RECURSIVE is_matched_loop(_, _, _)
is_matched_loop(e, i, d) ==
    IF i > Len(e)
    THEN MatchResult(Bool(ArrayStack_is_empty(d)), "None")
    ELSE IF In(e[i], lefty)
    THEN LET m == ArrayStack_push_call(d, <<>>)
         IN  IF m.exc # "None"
             THEN MatchResult("None", m.exc)
             ELSE is_matched_loop(e, i + 1, m.data)
    ELSE IF In(e[i], righty)
    THEN IF ArrayStack_is_empty(d)
         THEN MatchResult("False", "None")
         ELSE IF ~StrHasAttr("idnex")
         THEN MatchResult("None", "AttributeError")
         ELSE LET m == ArrayStack_pop(d)
              IN  IF index(righty, e[i]) # index(lefty, m.ret)
                  THEN MatchResult("False", "None")
                  ELSE is_matched_loop(e, i + 1, m.data)
    ELSE is_matched_loop(e, i + 1, d)

\* is_matched(expr): S = ArrayStack(), then the loop
is_matched(e) == is_matched_loop(e, 1, <<>>)

\* the caller runs is_matched(expr)
call_is_matched ==
    /\ mpc = "start"
    /\ \E m \in {is_matched(expr)} :
        /\ mret' = m.ret
        /\ mexc' = m.exc
    /\ mpc' = "done"
    /\ UNCHANGED <<expr, notMatchVars>>

\* a string of at most MaxExpr characters is passed
InitMatch ==
    /\ InitLists /\ QuickAtRest /\ InplaceAtRest /\ ArrayStack_init
    /\ expr \in SeqsUpTo(Chars, MaxExpr)
    /\ mret = "None"
    /\ mexc = "None"
    /\ mpc = "start"

NextMatch == call_is_matched

SpecMatch == InitMatch /\ [][NextMatch]_vars

\* ------------------------------------------------------- reading the chain
\* The nodes met walking `link` from node n until `stop`: ok says the walk
\* arrived at stop (not at None, and within the number of nodes there are).
RECURSIVE Walk(_, _, _, _, _)
Walk(h, n, stop, forward, fuel) ==
    IF n = stop THEN [ok |-> TRUE, seq |-> <<>>]
    ELSE IF n = None \/ fuel = 0 THEN [ok |-> FALSE, seq |-> <<>>]
    ELSE LET r == Walk(h, IF forward THEN h[n].next ELSE h[n].prev,
                       stop, forward, fuel - 1)
         IN [ok |-> r.ok, seq |-> <<n>> \o r.seq]

WalkNext(h, c) == Walk(h, h[HeaderOf(c)].next, TrailerOf(c), TRUE, IterFuel)
WalkPrev(h, c) == Walk(h, h[TrailerOf(c)].prev, HeaderOf(c), FALSE, IterFuel)
Reverse(s) == [i \in 1 .. Len(s) |-> s[Len(s) + 1 - i]]
Chain(c) == WalkNext(heap, c).seq
ElementsOf(h, ns) == [i \in 1 .. Len(ns) |-> h[ns[i]].element]
Sentinels == {HeaderOf(c) : c \in Containers} \cup {TrailerOf(c) : c \in Containers}

\* P holds of the exit frame of every call a caller can make in the current
\* state: of the deque methods, ...
EachDequeFrame(c, P(_)) ==
    /\ P(Deque_first(Entry, c)) /\ P(Deque_last(Entry, c))
    /\ P(Deque_delete_first(Entry, c)) /\ P(Deque_delete_last(Entry, c))
    /\ \A e \in Elements :
         P(Deque_insert_first(Entry, c, e)) /\ P(Deque_insert_last(Entry, c, e))

\* ... of the methods of list c that take the Position p, ...
EachFrameWith(c, p, P(_)) ==
    /\ P(PositionalList_before(Entry, c, p))
    /\ P(PositionalList_after(Entry, c, p))
    /\ P(PositionalList_delete(Entry, c, p))
    /\ \A e \in Elements :
         /\ P(PositionalList_add_before(Entry, c, p, e))
         /\ P(PositionalList_add_after(Entry, c, p, e))
         /\ P(PositionalList_replace(Entry, c, p, e))

\* ... of all the methods of list c, ...
EachListFrame(c, P(_)) ==
    /\ P(PositionalList_first(Entry, c)) /\ P(PositionalList_last(Entry, c))
    /\ P(PositionalList_iter(Entry, c))
    /\ \A e \in Elements :
         P(PositionalList_add_first(Entry, c, e)) /\ P(PositionalList_add_last(Entry, c, e))
    /\ \A p \in Presentable : EachFrameWith(c, p, P)

\* ... and of all the methods of all the instances.
EachFrame(P(_)) ==
    /\ \A c \in LinkedDeques : EachDequeFrame(c, P)
    /\ \A c \in PositionalLists : EachListFrame(c, P)

\* p passes validation on the list that made it
Valid(p) == Validate(Entry, p.container, p).exc = "None"

PosEq(p, q) == p # NoPosition /\ q # NoPosition /\ p.node = q.node

Without(s, x) == SelectSeq(s, LAMBDA n : n # x)

\* What add_before (before = TRUE) or add_after must have done in exit frame
\* m, entered in the current state with valid p on list c and element e.
AddedNextTo(m, c, p, e, isBefore) ==
    LET q == m.pos
        old == Chain(c)
        new == WalkNext(m.heap, c).seq
    IN /\ m.exc = "None"
       /\ q # NoPosition /\ q \notin positions
       /\ Element(m.heap, q) = e
       /\ IF isBefore
          THEN /\ PosEq(PositionalList_after(m, c, q).pos, p)
               /\ PosEq(PositionalList_before(m, c, p).pos, q)
          ELSE /\ PosEq(PositionalList_before(m, c, q).pos, p)
               /\ PosEq(PositionalList_after(m, c, p).pos, q)
       /\ Without(new, q.node) = old
       /\ Len(new) = Len(old) + 1
       /\ ElementsOf(m.heap, old) = ElementsOf(heap, old)
       /\ \A d \in Containers \ {c} : m.objs[d] = objs[d]
       /\ \A n \in NodeIds \ {q.node} : creator[n] # c => m.heap[n] = heap[n]

Abstract(m, c) == ElementsOf(m.heap, WalkNext(m.heap, c).seq)
Front(s) == SubSeq(s, 1, Len(s) - 1)

IsSorted(s) == \A i \in 1 .. (Len(s) - 1) : s[i] <= s[i + 1]
Occurrences(s, x) == Cardinality({i \in 1 .. Len(s) : s[i] = x})
SameBag(s, t) ==
    /\ Len(s) = Len(t)
    /\ \A i \in 1 .. Len(s) : Occurrences(s, s[i]) = Occurrences(t, s[i])

Held(f) == Len(f.S) + Len(f.L) + Len(f.E) + Len(f.G)

\* Each activation but the outermost was entered on a queue shorter than the
\* one its caller was entered on; and once an activation has divided its
\* queue, the pivot is in E, so that L and G are shorter than the queue was.
C20_CalleeShorter ==
    \A i \in 1 .. Len(stack) :
        LET f == stack[i]
        IN /\ i > 1 => /\ f.pc = "l3" => Len(f.S) < stack[i - 1].n
                       /\ f.pc # "l3" => f.n < stack[i - 1].n
           /\ f.pc \in {"l19", "l20"} =>
                /\ Len(f.E) >= 1 /\ \A k \in 1 .. Len(f.E) : f.E[k] = f.p
                /\ Len(f.L) < f.n /\ Len(f.G) < f.n
           /\ f.pc \in {"l11", "l19", "l22", "l24", "l26"} => Held(f) = f.n

\* Each pass of the dividing loop takes one element out of S, and each pass
\* of the three concatenating loops takes one out of L, E, G in turn.
C20_LoopPass ==
    (stack # <<>> /\ Len(stack') = Len(stack) /\ stack'[Len(stack)].pc = Top.pc) =>
        LET g == stack'[Len(stack)]
        IN /\ Top.pc \in {"l11", "l22", "l24", "l26"}
           /\ Top.pc = "l11" => Len(g.S) = Len(Top.S) - 1
           /\ Top.pc = "l22" => Len(g.L) = Len(Top.L) - 1
           /\ Top.pc = "l24" => Len(g.E) = Len(Top.E) - 1
           /\ Top.pc = "l26" => Len(g.G) = Len(Top.G) - 1

Slice(S, a, b) == [i \in 1 .. (IF b >= a THEN b - a + 1 ELSE 0) |-> S[a + i]]

\* C16: once inplace_quick_sort(S, a, b) with 0 <= a, b < len(S) has been
\* called, S[a..b] is nondecreasing and holds what it held before with the
\* same multiplicities, every element outside [a, b] is what it was, and no
\* index outside [a, b] was read or written.
C16_InplaceSortsRange ==
    ipc = "done" =>
        /\ Len(list) = Len(list0)
        /\ IsSorted(Slice(list, arg_a, arg_b))
        /\ SameBag(Slice(list, arg_a, arg_b), Slice(list0, arg_a, arg_b))
        /\ \A i \in 0 .. (Len(list0) - 1) :
               (i < arg_a \/ i > arg_b) => At(list, i) = At(list0, i)
        /\ touched \subseteq arg_a .. arg_b

\* C17: after any sequence of push, pop and top on an ArrayStack, len() is the
\* number of pushes minus the number of pops that returned; while some push
\* is not yet undone, top() and pop() both return the element of the latest
\* such push, top() leaving _data as it is and pop() leaving one element
\* fewer; once every push is undone the stack is empty, top() and pop() raise
\* Empty and leave it empty.
C17_ArrayStackLIFO ==
    /\ ArrayStack_len(data) = Len(pushed) - pops
    /\ \A t \in {ArrayStack_top(data)} : \A p \in {ArrayStack_pop(data)} :
        IF live = {}
        THEN /\ ArrayStack_is_empty(data)
             /\ t.exc = "Empty" /\ ArrayStack_is_empty(t.data)
             /\ p.exc = "Empty" /\ ArrayStack_is_empty(p.data)
        ELSE /\ t.exc = "None" /\ t.ret = pushed[Latest(live)]
             /\ t.data = data
             /\ p.exc = "None" /\ p.ret = pushed[Latest(live)]
             /\ ArrayStack_len(p.data) = ArrayStack_len(data) - 1
    /\ lastCall.op = "top" /\ lastCall.exc = "None" =>
           live # {} /\ lastCall.ret = pushed[Latest(live)]

\* two pops have returned, the second just now, a push older than the ones
\* they undid is still on the stack and a later push has been undone
C17_Witness ==
    /\ lastCall.op = "pop" /\ lastCall.exc = "None"
    /\ pops >= 2
    /\ live # {}
    /\ Latest(live) < Len(pushed)
    /\ pushed[Latest(live)] # pushed[Len(pushed)]

\* the delimiters of a string, in order
Delimiters(e) == SelectSeq(e, LAMBDA c : In(c, lefty) \/ In(c, righty))

\* an opening delimiter directly followed by its own closing delimiter
Pair(x, y) == \E k \in 1 .. Len(lefty) : x = lefty[k] /\ y = righty[k]

\* a string of delimiters with its adjacent pairs taken out until none is left
RECURSIVE Reduced(_)
Reduced(s) ==
    IF \E i \in 1 .. (Len(s) - 1) : Pair(s[i], s[i + 1])
    THEN LET i == CHOOSE i \in 1 .. (Len(s) - 1) : Pair(s[i], s[i + 1])
         IN  Reduced(SubSeq(s, 1, i - 1) \o SubSeq(s, i + 2, Len(s)))
    ELSE s

\* every opening delimiter is closed by its own closing delimiter in properly
\* nested order and none is left open
Matched(e) == Reduced(Delimiters(e)) = <<>>

\* C18: for every string, is_matched(expr) returns True when the delimiters
\* of expr are matched and False when they are not.
C18_IsMatchedDecides ==
    mpc = "done" => mret = Bool(Matched(expr))

\* the precondition of _insert_between on the call s: predecessor and
\* successor are nodes of the list `self` (its header, its trailer or a node
\* on its chain) and are adjacent at the moment of the call
PreconditionMet(s) ==
    /\ s.predecessor # None /\ s.successor # None
    /\ s.heap[s.predecessor].next = s.successor
    /\ s.heap[s.successor].prev = s.predecessor
    /\ \A w \in {WalkNext(s.heap, s.self)} :
        /\ w.ok
        /\ s.predecessor \in {HeaderOf(s.self)} \cup {w.seq[i] : i \in 1 .. Len(w.seq)}
        /\ s.successor \in {TrailerOf(s.self)} \cup {w.seq[i] : i \in 1 .. Len(w.seq)}

\* the calls of _insert_between made on the way to the exit frame m all met
\* the precondition; an operation that returned made exactly one
SplicesMet(m) ==
    /\ m.exc = "None" => Len(m.spliced) = 1
    /\ \A i \in 1 .. Len(m.spliced) : PreconditionMet(m.spliced[i])

====
